---- MODULE Spec2Model ----
(***************************************************************************)
(* Model of the molecular structure API backend                            *)
(* (Optimus/molecular_backend_api.py): the search, export and validate     *)
(* endpoints, the local store query, the PubChem client wrapper, the       *)
(* RDKit-backed chemistry helpers and the search-history background task.  *)
(*                                                                         *)
(* Strings are sequences of one-character strings.  Python's None is the   *)
(* value None below, which differs from every string over the alphabet.    *)
(***************************************************************************)
EXTENDS Integers, Sequences, FiniteSets, TLC

VARIABLES
    store,            \* rows of the molecules table, in the order the store returns them
    history,          \* rows of the search_history table, in insertion order
    tasks,            \* background tasks queued by answered searches, not yet run
    pc,               \* position of the search handler: "idle" or "pubchem"
    request,          \* the last SearchRequest received
    local_results,    \* search_molecules: rows returned by DatabaseService.search_molecules
    pubchem_results,  \* search_molecules: list returned by ExternalAPIService.search_pubchem
    all_results,      \* search_molecules: the accumulated MoleculeResponse list
    calls,            \* sources queried while handling the current search, in order
    env,              \* what the collaborators (store, PubChem, RDKit) did for the last operation
    response,         \* the last HTTP response produced by an endpoint
    served            \* (query, type, status, total) of every search answered, in order

vars == <<store, history, tasks, pc, request, local_results, pubchem_results,
          all_results, calls, env, response, served>>

(***************************************************************************)
(* Bounds of the model.                                                    *)
(***************************************************************************)
\* longest store drawn from the small rows
MaxStore == 1
\* longest list of compounds PubChem answers with, apart from the full page
MaxCompounds == 1
\* largest of the small request limits
MaxSmallLimit == 2
\* number of rows of the large store (all of them match the name query)
LargeStoreLen == 15
\* number of search requests in one behaviour
MaxSearches == 2

(***************************************************************************)
(* Program constants.                                                      *)
(***************************************************************************)
\* SearchRequest.limit default
DefaultLimit == 20
\* compounds[:10]
PubchemPage == 10

None == <<"None">>

Min(a, b) == IF a <= b THEN a ELSE b

\* Python's max
Max(a, b) == IF a >= b THEN a ELSE b

\* Python's xs[:n] for n >= 0
Take(xs, n) == SubSeq(xs, 1, Min(n, Len(xs)))

\* a call that ends by raising an exception, HTTPException(status_code, detail) or other
Raise(status_code, detail) ==
    [raised |-> TRUE, status_code |-> status_code, detail |-> detail]

\* a call that returns
Return(value) == [raised |-> FALSE, value |-> value]

\* Python truthiness of an Optional[str]
Truthy(s) == s /= None /\ s /= <<>>

\* str.lower() on one character
LowerChar(c) ==
    CASE c = "A" -> "a"
      [] c = "C" -> "c"
      [] c = "O" -> "o"
      [] c = "K" -> "k"
      [] c = "X" -> "x"
      [] OTHER -> c

Lower(s) == [i \in 1..Len(s) |-> LowerChar(s[i])]

\* SQL  name ILIKE '%query%'
ILikeContains(name, query) ==
    \E i \in 0..(Len(name) - Len(query)) :
        Lower(SubSeq(name, i + 1, i + Len(query))) = Lower(query)

(***************************************************************************)
(* ChemistryService.  A molecule is its atom sequence in canonical order;  *)
(* RDKit itself is a collaborator, so where it can fail the outcome is an  *)
(* input of the operator.                                                  *)
(***************************************************************************)
Atoms == {"C", "O"}

AtomRank(a) == IF a = "C" THEN 0 ELSE 1

Reverse(s) == [i \in 1..Len(s) |-> s[Len(s) + 1 - i]]

RECURSIVE SeqLess(_, _)
SeqLess(s, t) ==
    IF t = <<>> THEN FALSE
    ELSE IF s = <<>> THEN TRUE
    ELSE IF AtomRank(Head(s)) /= AtomRank(Head(t))
         THEN AtomRank(Head(s)) < AtomRank(Head(t))
    ELSE SeqLess(Tail(s), Tail(t))

\* Chem.MolFromSmiles: None for a string that is no SMILES; the empty string
\* gives the empty molecule
MolFromSmiles(smiles) ==
    IF smiles /= None /\ \A i \in 1..Len(smiles) : smiles[i] \in Atoms
    THEN (IF SeqLess(Reverse(smiles), smiles) THEN Reverse(smiles) ELSE smiles)
    ELSE None

smiles_to_mol(smiles) == MolFromSmiles(smiles)

\* mol_to_smiles: the canonical SMILES, "" when RDKit raises
mol_to_smiles(mol, ok) == IF ok THEN mol ELSE <<>>

\* an Optional[float], Optional[int] or Optional[bool]: <<v>>, or <<>> for None
Some(v) == <<v>>

Null == <<>>

\* MoleculeProperties()
NoProperties ==
    [logP |-> Null, tpsa |-> Null, hbondDonors |-> Null,
     hbondAcceptors |-> Null, rotatablebonds |-> Null, lipinski |-> Null]

CountOf(mol, a) == Cardinality({i \in 1..Len(mol) : mol[i] = a})

\* the RDKit descriptors of a molecule; floats are in thousandths
Descriptors(mol) ==
    [MolLogP |-> 636 * CountOf(mol, "C") - 1029 * CountOf(mol, "O"),
     TPSA |-> 20230 * CountOf(mol, "O"),
     NumHDonors |-> CountOf(mol, "O"),
     NumHAcceptors |-> CountOf(mol, "O"),
     NumRotatableBonds |-> 0,
     MolWt |-> 16043 * CountOf(mol, "C") + 18015 * CountOf(mol, "O")]

\* round(x, 2) on a value in thousandths
Round2(x) ==
    LET q == x \div 10
        r == x % 10
    IN  IF r < 5 THEN 10 * q
        ELSE IF r > 5 THEN 10 * (q + 1)
        ELSE IF q % 2 = 0 THEN 10 * q ELSE 10 * (q + 1)

\* the Lipinski test with the donor bound taken as strict
C11_StrictDonorBound(d, ok) ==
    IF ok
    THEN LET logP == Round2(d.MolLogP)
         IN  [logP |-> Some(logP), tpsa |-> Some(Round2(d.TPSA)),
              hbondDonors |-> Some(d.NumHDonors),
              hbondAcceptors |-> Some(d.NumHAcceptors),
              rotatablebonds |-> Some(d.NumRotatableBonds),
              lipinski |-> Some(logP <= 5000 /\ d.NumHDonors < 5
                                /\ d.NumHAcceptors <= 10 /\ d.MolWt <= 500000)]
    ELSE NoProperties

\* the body of calculate_properties on the descriptor values d RDKit gives for
\* the molecule: logP and TPSA are rounded to two decimals, the Lipinski flag
\* is computed from the rounded logP, the counts and the (unrounded) MolWt;
\* the empty MoleculeProperties when a descriptor raises (ok = FALSE)
PropertiesFrom(d, ok) ==
    IF ok
    THEN LET logP == Round2(d.MolLogP)
         IN  [logP |-> Some(logP), tpsa |-> Some(Round2(d.TPSA)),
              hbondDonors |-> Some(d.NumHDonors),
              hbondAcceptors |-> Some(d.NumHAcceptors),
              rotatablebonds |-> Some(d.NumRotatableBonds),
              lipinski |-> Some(logP <= 5000 /\ d.NumHDonors <= 5
                                /\ d.NumHAcceptors <= 10 /\ d.MolWt <= 500000)]
    ELSE NoProperties

\* calculate_properties: all six fields, or the empty MoleculeProperties when
\* a descriptor raises (ok = FALSE)
calculate_properties(mol, ok) == PropertiesFrom(Descriptors(mol), ok)

\* descriptor values around the Lipinski thresholds (floats in thousandths)
LogPValues == {3000, 5000, 5004, 5006}

DonorValues == {2, 5, 6}

AcceptorValues == {4, 10, 11}

WeightValues == {250000, 500000, 500001, 600000}

DescriptorValues ==
    [MolLogP : LogPValues, TPSA : {20230}, NumHDonors : DonorValues,
     NumHAcceptors : AcceptorValues, NumRotatableBonds : {0}, MolWt : WeightValues]

\* generate_2d_structure: the SVG text (named by the molecule drawn), None when RDKit raises
generate_2d_structure(mol, ok) == IF ok THEN <<"svg">> \o mol ELSE None

(***************************************************************************)
(* The molecules table and DatabaseService.                                *)
(***************************************************************************)
\* a MoleculeDB row; name, smiles, inchi and inchi_key are not nullable
Row(name, smiles, inchi_key, cas_number, pubchem_cid, logp, tpsa) ==
    [name |-> name, smiles |-> smiles, inchi |-> <<"I">> \o inchi_key,
     inchi_key |-> inchi_key, cas_number |-> cas_number,
     molecular_weight |-> Null, molecular_formula |-> None,
     pubchem_cid |-> pubchem_cid, drugbank_id |-> None, chembl_id |-> None,
     logp |-> logp, tpsa |-> tpsa, hbd |-> Null, hba |-> Null,
     rotatable_bonds |-> Null, lipinski_pass |-> Null,
     structure_2d |-> None, structure_3d |-> None]

Key1 == <<"K", "1">>

Key2 == <<"K", "2">>

Key3 == <<"K", "3">>

RowA == Row(<<"A", "b">>, <<"C">>, Key1, None, None, Some(640), Some(0))

RowB == Row(<<"a">>, <<"C", "O">>, Key2, <<"5">>, <<"8">>, Null, Null)

SmallRows == {RowA, RowB}

\* a table of rows that all match the name query "a", each with its own key
LargeRow(i) ==
    Row(<<"a">>, <<"C">>, <<"L">> \o [j \in 1..i |-> "0"], None, None, Null, Null)

LargeStore == [i \in 1..LargeStoreLen |-> LargeRow(i)]

\* the contents the molecules table may have
Stores ==
    UNION {[1..n -> SmallRows] : n \in 0..MaxStore} \cup {LargeStore}

\* db.query(MoleculeDB).filter(...).limit(limit).all()
QueryRows(rows, search_type, query, limit) ==
    LET Hit(r) ==
            CASE search_type = "name" -> ILikeContains(r.name, query)
              [] search_type = "cas" -> r.cas_number = query
              [] search_type = "smiles" -> r.smiles = query
              [] search_type = "inchi_key" -> r.inchi_key = query
              [] OTHER -> FALSE
    IN  Take(SelectSeq(rows, Hit), limit)

\* a store search that answers with the rows it found whether or not the store raised
C13_StoreFailureIgnored(rows, query, search_type, limit, db_ok) ==
    QueryRows(rows, search_type, query, limit)

\* DatabaseService.search_molecules: [] for any other search type and when
\* the store raises (db_ok = FALSE)
DatabaseService_search_molecules(rows, query, search_type, limit, db_ok) ==
    IF search_type \in {"name", "cas", "smiles", "inchi_key"} /\ db_ok
    THEN QueryRows(rows, search_type, query, limit)
    ELSE <<>>

(***************************************************************************)
(* PubChem and ExternalAPIService.search_pubchem.                          *)
(***************************************************************************)
\* a pubchempy Compound; synonyms_ok = FALSE when fetching its synonyms raises
Compound(cid, iupac_name, synonyms, synonyms_ok, canonical_smiles, inchikey) ==
    [cid |-> cid, iupac_name |-> iupac_name, synonyms |-> synonyms,
     synonyms_ok |-> synonyms_ok, canonical_smiles |-> canonical_smiles,
     inchi |-> <<"I">> \o inchikey, inchikey |-> inchikey,
     molecular_weight |-> Null, molecular_formula |-> None]

CpdA == Compound(<<"7">>, <<"A">>, <<<<"s">>>>, TRUE, <<"C">>, Key1)

CpdB == Compound(<<"8">>, None, <<<<"s">>>>, TRUE, <<"O", "C">>, Key2)

CpdNoSmiles == Compound(<<"9">>, <<"c">>, <<>>, TRUE, None, Key3)

CpdEmptySmiles == Compound(<<"9">>, <<"c">>, <<>>, TRUE, <<>>, Key3)

CpdBadSmiles == Compound(<<"9">>, <<"c">>, <<>>, TRUE, <<"X">>, Key3)

CpdBroken == Compound(<<"9">>, <<"c">>, <<>>, FALSE, <<"C">>, Key3)

Compounds == {CpdA, CpdB, CpdNoSmiles, CpdEmptySmiles, CpdBadSmiles, CpdBroken}

\* a page of PubChem longer than search_pubchem keeps, each compound with its
\* own CID and key
PageCompound(i) ==
    Compound(<<"1">> \o [j \in 1..i |-> "0"], None, <<>>, TRUE, <<"C">>,
             <<"P">> \o [j \in 1..i |-> "0"])

FullPage == [i \in 1..(PubchemPage + 1) |-> PageCompound(i)]

\* what pcp.get_compounds may do: raise (ok = FALSE) or return compounds
PubchemAnswers ==
    {[ok |-> FALSE, compounds |-> <<>>]}
    \cup {[ok |-> TRUE, compounds |-> cs] :
            cs \in UNION {[1..n -> Compounds] : n \in 0..MaxCompounds} \cup {FullPage}}

\* the mol_data dict built from one compound
MolData(c) ==
    [name |-> IF c.synonyms /= <<>>
              THEN (IF Truthy(c.iupac_name) THEN c.iupac_name ELSE Head(c.synonyms))
              ELSE <<"CID_">> \o c.cid,
     smiles |-> c.canonical_smiles, inchi |-> c.inchi, inchi_key |-> c.inchikey,
     molecular_weight |-> c.molecular_weight,
     molecular_formula |-> c.molecular_formula,
     pubchem_cid |-> c.cid, cas_number |-> None]

\* the loop over compounds[:10]: a compound whose processing raises is skipped
RECURSIVE CollectMolData(_)
CollectMolData(cs) ==
    IF cs = <<>> THEN <<>>
    ELSE (IF Head(cs).synonyms_ok THEN <<MolData(Head(cs))>> ELSE <<>>)
         \o CollectMolData(Tail(cs))

\* whether search_pubchem reaches pcp.get_compounds for this search type
CallsPubchem(search_type) == search_type \in {"name", "cas", "smiles"}

\* search_pubchem without its except branch: a PubChem failure leaves the call
C4_PubchemErrorPropagates(search_type, answer) ==
    IF ~CallsPubchem(search_type) THEN Return(<<>>)
    ELSE IF ~answer.ok THEN Raise(500, "PubChem search error")
    ELSE Return(CollectMolData(Take(answer.compounds, PubchemPage)))

\* ExternalAPIService.search_pubchem: [] for the other search types and when
\* anything raises
search_pubchem(search_type, answer) ==
    IF ~CallsPubchem(search_type) THEN Return(<<>>)
    ELSE IF ~answer.ok THEN Return(<<>>)
    ELSE Return(CollectMolData(Take(answer.compounds, PubchemPage)))

(***************************************************************************)
(* The search endpoint.                                                    *)
(***************************************************************************)
SearchTypes == {"name", "cas", "smiles", "inchi", "inchi_key"}

Queries == {<<"a">>, <<"C">>}

Limits == 1..MaxSmallLimit \cup {DefaultLimit}

NoRequest == [query |-> <<>>, type |-> "name", limit |-> DefaultLimit]

NoResponse == [op |-> "none", status |-> 0]

NoEnv == [op |-> "none"]

\* the MoleculeResponse built from a store row
LocalResponse(r) ==
    [name |-> r.name, smiles |-> r.smiles, inchi |-> r.inchi,
     inchiKey |-> r.inchi_key, casNumber |-> r.cas_number,
     molecularWeight |-> r.molecular_weight,
     molecularFormula |-> r.molecular_formula,
     pubchemCID |-> r.pubchem_cid, drugbankID |-> r.drugbank_id,
     chemblID |-> r.chembl_id, structure2D |-> r.structure_2d,
     structure3D |-> r.structure_3d,
     properties |-> IF r.logp /= Null
                    THEN Some([logP |-> r.logp, tpsa |-> r.tpsa,
                               hbondDonors |-> r.hbd, hbondAcceptors |-> r.hba,
                               rotatablebonds |-> r.rotatable_bonds,
                               lipinski |-> r.lipinski_pass])
                    ELSE Null]

LocalResponses(rows) == [i \in 1..Len(rows) |-> LocalResponse(rows[i])]

\* MoleculeResponse(...) raises a validation error when a required str field is None
ResponseValidates(d) ==
    d.name /= None /\ d.smiles /= None /\ d.inchi /= None /\ d.inchi_key /= None

\* the MoleculeResponse built from one PubChem hit
ExternalResponse(d, desc_ok, draw_ok) ==
    LET mol == IF Truthy(d.smiles) THEN smiles_to_mol(d.smiles) ELSE None
    IN  [name |-> d.name, smiles |-> d.smiles, inchi |-> d.inchi,
         inchiKey |-> d.inchi_key, casNumber |-> d.cas_number,
         molecularWeight |-> d.molecular_weight,
         molecularFormula |-> d.molecular_formula,
         pubchemCID |-> d.pubchem_cid, drugbankID |-> None, chemblID |-> None,
         structure2D |-> IF mol /= None THEN generate_2d_structure(mol, draw_ok)
                         ELSE None,
         structure3D |-> None,
         properties |-> IF mol /= None THEN Some(calculate_properties(mol, desc_ok))
                        ELSE Null]

\* the hits of pubchem_results the loop goes through
PubchemSlice(results, remaining_limit) == Take(results, remaining_limit)

\* a hit put in front of the results collected so far
C9_ResultPrepended(acc, mol_response) == <<mol_response>> \o acc

\* all_results.append(mol_response)
AppendResult(acc, mol_response) == Append(acc, mol_response)

\* the loop over the slice: all_results when it ends, and whether it ended by raising
RECURSIVE ExternalLoop(_, _, _, _)
ExternalLoop(acc, hits, desc_ok, draw_ok) ==
    IF hits = <<>> THEN [all_results |-> acc, raised |-> FALSE]
    ELSE IF ~ResponseValidates(Head(hits)) THEN [all_results |-> acc, raised |-> TRUE]
    ELSE ExternalLoop(AppendResult(acc, ExternalResponse(Head(hits), desc_ok, draw_ok)),
                      Tail(hits), desc_ok, draw_ok)

\* the slots left for PubChem computed without the local hits
C1_RemainingIgnoresLocal(limit, results) == Max(0, limit)

\* remaining_limit = max(0, request.limit - len(all_results))
RemainingLimit(limit, results) == Max(0, limit - Len(results))

\* a SearchResponse whose total reports the limit asked for
C2_TotalIsLimit(req, results) ==
    [op |-> "search", status |-> 200, molecules |-> Take(results, req.limit),
     total |-> req.limit, query |-> req.query, search_type |-> req.type]

\* the SearchResponse
SearchResponse(req, results) ==
    [op |-> "search", status |-> 200, molecules |-> Take(results, req.limit),
     total |-> Len(results), query |-> req.query, search_type |-> req.type]

\* the except branch of an endpoint: HTTPException(status_code=500)
ServerError(op) == [op |-> op, status |-> 500]

\* the arguments of background_tasks.add_task(save_search_history, ...)
HistoryTask(req, results) ==
    [query |-> req.query, search_type |-> req.type, result_count |-> Len(results)]

Served(req, resp) ==
    [query |-> req.query, search_type |-> req.type, status |-> resp.status,
     total |-> IF resp.status = 200 THEN resp.total ELSE 0]

\* lines 526-537: queue the history task and answer
Answer(req, results) ==
    /\ tasks' = Append(tasks, HistoryTask(req, results))
    /\ response' = SearchResponse(req, results)
    /\ served' = Append(served, Served(req, SearchResponse(req, results)))
    /\ pc' = "idle"

\* search_molecules up to the external call: the local store is queried and
\* its rows are converted; with nothing remaining the request is answered
SearchLocal(query, search_type, limit, db_ok) ==
    /\ pc = "idle"
    /\ LET req == [query |-> query, type |-> search_type, limit |-> limit]
           rows == DatabaseService_search_molecules(store, query, search_type, limit, db_ok)
           results == LocalResponses(rows)
       IN  /\ request' = req
           /\ local_results' = rows
           /\ all_results' = results
           /\ pubchem_results' = <<>>
           /\ calls' = <<"local">>
           /\ env' = [op |-> "search", db_ok |-> db_ok, pubchem |-> "not called"]
           /\ IF RemainingLimit(limit, results) > 0
              THEN /\ pc' = "pubchem"
                   /\ response' = NoResponse
                   /\ UNCHANGED <<tasks, served>>
              ELSE Answer(req, results)
    /\ UNCHANGED <<store, history>>

\* lines 497-524: the call of search_pubchem and the loop over its hits;
\* an exception of either leaves the try block
PubchemStep(req, results, answer, desc_ok, draw_ok) ==
    LET called == search_pubchem(req.type, answer)
    IN  IF called.raised
        THEN [hits |-> <<>>, all_results |-> results, raised |-> TRUE]
        ELSE LET loop == ExternalLoop(results,
                             PubchemSlice(called.value, RemainingLimit(req.limit, results)),
                             desc_ok, draw_ok)
             IN  [hits |-> called.value, all_results |-> loop.all_results,
                  raised |-> loop.raised]

\* search_molecules from the external call on: PubChem is queried, its hits
\* are enriched and appended, and the request is answered
SearchPubchem(answer, desc_ok, draw_ok) ==
    /\ pc = "pubchem"
    /\ LET step == PubchemStep(request, all_results, answer, desc_ok, draw_ok)
       IN  /\ pubchem_results' = step.hits
           /\ all_results' = step.all_results
           /\ calls' = IF CallsPubchem(request.type) THEN Append(calls, "pubchem") ELSE calls
           /\ env' = [env EXCEPT !.pubchem =
                         IF ~CallsPubchem(request.type) THEN "not called"
                         ELSE IF answer.ok THEN "ok" ELSE "error"]
           /\ IF step.raised
              THEN /\ response' = ServerError("search")
                   /\ served' = Append(served, Served(request, ServerError("search")))
                   /\ pc' = "idle"
                   /\ UNCHANGED tasks
              ELSE Answer(request, step.all_results)
    /\ UNCHANGED <<store, history, request, local_results>>

(***************************************************************************)
(* The search-history background task.                                     *)
(***************************************************************************)
RemoveAt(xs, i) == SubSeq(xs, 1, i - 1) \o SubSeq(xs, i + 1, Len(xs))

\* a history write that replaces the table's rows by the new row
C7_HistoryOverwritten(rows, task, write_ok) ==
    IF write_ok THEN <<task>> ELSE rows

\* a failed history write that is not rolled back: a row without its count stays
C8_FailedWriteLeavesRow(rows, task, write_ok) ==
    IF write_ok THEN Append(rows, task)
    ELSE Append(rows, [query |-> task.query, search_type |-> task.search_type,
                       result_count |-> -1])

\* save_search_history: the row is committed, or the write is rolled back
save_search_history(rows, task, write_ok) ==
    IF write_ok THEN Append(rows, task) ELSE rows

\* the task of one answered search runs, after its response was produced
SaveSearchHistory(i, write_ok) ==
    /\ i \in 1..Len(tasks)
    /\ history' = save_search_history(history, tasks[i], write_ok)
    /\ tasks' = RemoveAt(tasks, i)
    /\ UNCHANGED <<store, pc, request, local_results, pubchem_results, all_results,
                   calls, env, response, served>>

(***************************************************************************)
(* The export endpoint and ChemistryService.convert_format.                *)
(***************************************************************************)
ExportFormats == {"sdf", "mol2", "pdb", "pdbqt", "png", "svg"}

\* ExportRequest.smiles has min_length 1
ExportSmiles == {<<"C">>, <<"O", "C">>, <<"X">>, <<"C", "X">>}

\* the writer convert_format ends in for each format
Serializer(target_format) ==
    CASE target_format \in {"sdf", "mol2"} -> "MolToMolBlock"
      [] target_format \in {"pdb", "pdbqt"} -> "MolToPDBBlock"
      [] target_format = "png" -> "MolToImage"
      [] target_format = "svg" -> "MolDraw2DSVG"

\* convert_format: the bytes, or HTTPException(400) when the format is unknown
\* or when RDKit raises on the way (rdkit_ok = FALSE)
convert_format(mol, target_format, add_hydrogens, minimize, rdkit_ok) ==
    IF target_format \notin ExportFormats \/ ~rdkit_ok
    THEN Raise(400, "Conversion error")
    ELSE LET embedded == target_format \in {"sdf", "mol2", "pdb", "pdbqt"}
         IN  Return([writer |-> Serializer(target_format), mol |-> mol,
                     hydrogens |-> add_hydrogens, embedded |-> embedded,
                     minimized |-> embedded /\ minimize])

ContentType(format) ==
    CASE format = "sdf" -> "chemical/x-mdl-sdfile"
      [] format = "mol2" -> "chemical/x-mol2"
      [] format = "pdb" -> "chemical/x-pdb"
      [] format = "pdbqt" -> "text/plain"
      [] format = "png" -> "image/png"
      [] format = "svg" -> "image/svg+xml"
      [] OTHER -> "application/octet-stream"

\* the try block of export_molecule
ExportBody(smiles, format, add_hydrogens, minimize, rdkit_ok) ==
    LET mol == smiles_to_mol(smiles)
    IN  IF mol = None THEN Raise(400, "Invalid SMILES string")
        ELSE LET file_data == convert_format(mol, format, add_hydrogens, minimize, rdkit_ok)
             IN  IF file_data.raised THEN file_data
                 ELSE Return([op |-> "export", status |-> 200,
                              media_type |-> ContentType(format),
                              filename |-> format, body |-> file_data.value])

\* export_molecule: whatever the try block raises is caught by except Exception
export_molecule(smiles, format, add_hydrogens, minimize, rdkit_ok) ==
    LET body == ExportBody(smiles, format, add_hydrogens, minimize, rdkit_ok)
    IN  IF body.raised
        THEN [op |-> "export", status |-> 500, detail |-> body.detail]
        ELSE body.value

ExportMolecule(smiles, format, add_hydrogens, minimize, rdkit_ok) ==
    /\ pc = "idle"
    /\ response' = export_molecule(smiles, format, add_hydrogens, minimize, rdkit_ok)
    /\ env' = [op |-> "export", parsed |-> smiles_to_mol(smiles) /= None,
               rdkit_ok |-> rdkit_ok]
    /\ UNCHANGED <<store, history, tasks, pc, request, local_results,
                   pubchem_results, all_results, calls, served>>

(***************************************************************************)
(* The validate endpoint.                                                  *)
(***************************************************************************)
ValidateSmiles == {<<>>, <<"C">>, <<"O", "C">>, <<"X">>}

\* rdMolDescriptors.CalcMolFormula: the atom counts, hydrogens filled in
CalcMolFormula(mol) ==
    [C |-> CountOf(mol, "C"), O |-> CountOf(mol, "O"),
     H |-> IF mol = <<>> THEN 0
           ELSE 4 * CountOf(mol, "C") + 2 * CountOf(mol, "O") - 2 * (Len(mol) - 1)]

\* the try block of validate_structure; the flags say which RDKit call raises
ValidateBody(smiles, canon_ok, desc_ok, draw_ok, formula_ok, weight_ok) ==
    LET mol == smiles_to_mol(smiles)
    IN  IF mol = None
        THEN Return([op |-> "validate", status |-> 200, valid |-> FALSE,
                     error |-> "Invalid SMILES string"])
        ELSE IF ~formula_ok THEN Raise(500, "CalcMolFormula")
        ELSE IF ~weight_ok THEN Raise(500, "MolWt")
        ELSE Return([op |-> "validate", status |-> 200, valid |-> TRUE,
                     canonical_smiles |-> mol_to_smiles(mol, canon_ok),
                     molecular_formula |-> CalcMolFormula(mol),
                     molecular_weight |-> Round2(Descriptors(mol).MolWt),
                     properties |-> calculate_properties(mol, desc_ok),
                     structure_2d |-> generate_2d_structure(mol, draw_ok)])

\* validate_structure without its except branch: the exception leaves the handler
C6_ValidateWithoutHandler(smiles, canon_ok, desc_ok, draw_ok, formula_ok, weight_ok) ==
    LET body == ValidateBody(smiles, canon_ok, desc_ok, draw_ok, formula_ok, weight_ok)
    IN  IF body.raised THEN ServerError("validate") ELSE body.value

\* validate_structure: an exception becomes {"valid": False, "error": str(e)}
validate_structure(smiles, canon_ok, desc_ok, draw_ok, formula_ok, weight_ok) ==
    LET body == ValidateBody(smiles, canon_ok, desc_ok, draw_ok, formula_ok, weight_ok)
    IN  IF body.raised
        THEN [op |-> "validate", status |-> 200, valid |-> FALSE, error |-> body.detail]
        ELSE body.value

ValidateStructure(smiles, canon_ok, desc_ok, draw_ok, formula_ok, weight_ok) ==
    /\ pc = "idle"
    /\ response' = validate_structure(smiles, canon_ok, desc_ok, draw_ok,
                                      formula_ok, weight_ok)
    /\ env' = [op |-> "validate", parsed |-> smiles_to_mol(smiles) /= None,
               canon_ok |-> canon_ok, desc_ok |-> desc_ok, draw_ok |-> draw_ok,
               formula_ok |-> formula_ok, weight_ok |-> weight_ok]
    /\ UNCHANGED <<store, history, tasks, pc, request, local_results,
                   pubchem_results, all_results, calls, served>>

(***************************************************************************)
(* ChemistryService.calculate_properties on its own.                       *)
(***************************************************************************)
\* calculate_properties is called on a molecule whose RDKit descriptors are d;
\* the MoleculeProperties it returns is kept in response
CalculateProperties(d, ok) ==
    /\ pc = "idle"
    /\ response' = [op |-> "properties", status |-> 200,
                    properties |-> PropertiesFrom(d, ok)]
    /\ env' = [op |-> "properties", descriptors |-> d, ok |-> ok]
    /\ UNCHANGED <<store, history, tasks, pc, request, local_results,
                   pubchem_results, all_results, calls, served>>

Init ==
    /\ store \in Stores
    /\ history = <<>>
    /\ tasks = <<>>
    /\ pc = "idle"
    /\ request = NoRequest
    /\ local_results = <<>>
    /\ pubchem_results = <<>>
    /\ all_results = <<>>
    /\ calls = <<>>
    /\ env = NoEnv
    /\ response = NoResponse
    /\ served = <<>>

\* a search request arrives, while fewer than max_searches were answered
DoSearchLocal(max_searches) ==
    /\ Len(served) < max_searches
    /\ \E q \in Queries, t \in SearchTypes, l \in Limits, db_ok \in BOOLEAN :
           SearchLocal(q, t, l, db_ok)

DoSearchPubchem ==
    \E a \in PubchemAnswers, desc_ok \in BOOLEAN, draw_ok \in BOOLEAN :
        SearchPubchem(a, desc_ok, draw_ok)

DoSaveSearchHistory ==
    \E i \in 1..Len(tasks), write_ok \in BOOLEAN : SaveSearchHistory(i, write_ok)

\* the service: search requests one after the other, history tasks in between
Next == DoSearchLocal(MaxSearches) \/ DoSearchPubchem \/ DoSaveSearchHistory

Spec == Init /\ [][Next]_vars

\* one search request and its history task
NextSearch == DoSearchLocal(1) \/ DoSearchPubchem \/ DoSaveSearchHistory

SpecSearch == Init /\ [][NextSearch]_vars

DoExportMolecule ==
    \E smiles \in ExportSmiles, format \in ExportFormats,
       add_hydrogens \in BOOLEAN, minimize \in BOOLEAN, rdkit_ok \in BOOLEAN :
        ExportMolecule(smiles, format, add_hydrogens, minimize, rdkit_ok)

DoValidateStructure ==
    \E smiles \in ValidateSmiles, canon_ok \in BOOLEAN, desc_ok \in BOOLEAN,
       draw_ok \in BOOLEAN, formula_ok \in BOOLEAN, weight_ok \in BOOLEAN :
        ValidateStructure(smiles, canon_ok, desc_ok, draw_ok, formula_ok, weight_ok)

\* the endpoints that keep no state: export and validate requests in any order
NextChem == DoExportMolecule \/ DoValidateStructure

SpecChem == Init /\ [][NextChem]_vars

DoCalculateProperties ==
    \E d \in DescriptorValues, ok \in BOOLEAN : CalculateProperties(d, ok)

\* the property calculator applied to molecules of any descriptor values
NextProperties == DoCalculateProperties

SpecProperties == Init /\ [][NextProperties]_vars

(***************************************************************************)
(* Properties of the search endpoint.                                      *)
(***************************************************************************)
\* the PubChem hits taken into all_results by the current search
ExternalTaken == Len(all_results) - Len(local_results)

\* how often PubChem was queried by the current search
PubchemCalls == Cardinality({i \in 1..Len(calls) : calls[i] = "pubchem"})

SearchAnswered == response.op = "search" /\ response.status = 200

\* C1: the PubChem hits taken into the result are at most
\* remaining = max(0, limit - local hits); with limit or more local hits
\* PubChem is not called at all; with 15 local hits and limit 20 at most 5
\* PubChem hits are taken.
C1_ExternalWithinRemaining ==
    calls /= <<>> =>
        /\ ExternalTaken >= 0
        /\ ExternalTaken <= Max(0, request.limit - Len(local_results))
        /\ Len(local_results) >= request.limit =>
               /\ PubchemCalls = 0
               /\ pubchem_results = <<>>
               /\ pc = "idle"
        /\ (Len(local_results) = 15 /\ request.limit = 20) => ExternalTaken <= 5

\* 15 local hits, limit 20, PubChem returned more than 5 hits, 5 were taken
C1_Witness ==
    /\ SearchAnswered
    /\ Len(local_results) = 15
    /\ request.limit = 20
    /\ Len(pubchem_results) > 5
    /\ ExternalTaken = 5

\* C2: the molecules list of a search response is no longer than the limit,
\* and total is the size of the merged result set before truncation, so
\* total >= the number of molecules returned.
C2_ResponseWithinLimit ==
    SearchAnswered =>
        /\ Len(response.molecules) <= request.limit
        /\ response.total = Len(all_results)
        /\ response.total >= Len(response.molecules)
        /\ \A i \in 1..Len(response.molecules) : response.molecules[i] = all_results[i]

\* a response filled up to the limit from both sources, PubChem having had more
C2_Witness ==
    /\ SearchAnswered
    /\ Len(response.molecules) = request.limit
    /\ Len(local_results) >= 1
    /\ ExternalTaken >= 1
    /\ Len(pubchem_results) > ExternalTaken

\* C3: no external entry of a search response has the inchiKey of an entry
\* before it (local or external): such a hit is merged, not appended.
C3_NoDuplicateKeys ==
    SearchAnswered =>
        \A j \in 1..Len(response.molecules) :
            j > Len(local_results) =>
                \A i \in 1..(j - 1) :
                    response.molecules[i].inchiKey /= response.molecules[j].inchiKey

\* C4: when the PubChem call fails the search is still answered with
\* success, its molecules being the local results in store order; PubChem is
\* queried at most once per request.
C4_ExternalFailureDegrades ==
    /\ PubchemCalls <= 1
    /\ (env.op = "search" /\ env.pubchem = "error") =>
           /\ PubchemCalls = 1
           /\ SearchAnswered
           /\ Len(response.molecules) = Len(local_results)
           /\ \A i \in 1..Len(local_results) :
                  /\ response.molecules[i].inchiKey = local_results[i].inchi_key
                  /\ response.molecules[i].name = local_results[i].name
                  /\ response.molecules[i].smiles = local_results[i].smiles

\* PubChem failed for a search that had local hits
C4_Witness ==
    /\ env.op = "search"
    /\ env.pubchem = "error"
    /\ Len(local_results) >= 1
    /\ response.status = 200

(***************************************************************************)
(* Properties of the export and validate endpoints.                        *)
(***************************************************************************)
\* C5: export answers 400 when the SMILES does not parse and 500 when the
\* conversion of a parsed molecule fails; the two causes give these two
\* distinct statuses.
C5_ExportFailureStatuses ==
    (response.op = "export" /\ env.op = "export") =>
        /\ ~env.parsed => response.status = 400
        /\ (env.parsed /\ ~env.rdkit_ok) => response.status = 500

\* C6: validate never raises: it always answers normally with a valid flag,
\* which is false (with an error text) when the string does not parse or
\* when the formula or the weight computation fails, and true otherwise; a
\* failed canonicalization leaves valid true with an empty canonical SMILES.
C6_ValidateAlwaysAnswers ==
    (response.op = "validate" /\ env.op = "validate") =>
        /\ response.status = 200
        /\ response.valid \in BOOLEAN
        /\ response.valid = FALSE <=>
               (~env.parsed \/ ~env.formula_ok \/ ~env.weight_ok)
        /\ response.valid = FALSE => "error" \in DOMAIN response
        /\ (response.valid /\ ~env.canon_ok) => response.canonical_smiles = <<>>

\* a parsed string whose canonicalization failed, answered as valid
C6_Witness ==
    /\ response.op = "validate"
    /\ env.op = "validate"
    /\ env.parsed
    /\ ~env.canon_ok
    /\ response.valid

\* C6 as claimed: valid is false exactly when the string does not parse or
\* canonicalization, formula or weight fails.
C6_ValidIffEveryStepSucceeds ==
    (response.op = "validate" /\ env.op = "validate") =>
        /\ response.status = 200
        /\ response.valid = FALSE <=>
               (~env.parsed \/ ~env.canon_ok \/ ~env.formula_ok \/ ~env.weight_ok)

(***************************************************************************)
(* Properties of the search history.                                       *)
(***************************************************************************)
\* the searches answered with success so far
Successes == {k \in 1..Len(served) : served[k].status = 200}

IsPrefix(xs, ys) == Len(xs) <= Len(ys) /\ xs = SubSeq(ys, 1, Len(xs))

\* every history row records a search that was answered, and the rows and the
\* tasks still queued are together no more than the searches answered
HistoryWithinServed ==
    /\ Len(history) + Len(tasks) <= Cardinality(Successes)
    /\ \A n \in 1..Len(history) :
           \E k \in Successes :
               /\ served[k].query = history[n].query
               /\ served[k].search_type = history[n].search_type
               /\ served[k].total = history[n].result_count

\* a step keeps the history, or runs one queued task and appends its row
HistoryStep ==
    /\ IsPrefix(history, history')
    /\ history' /= history =>
           \E i \in 1..Len(tasks) :
               /\ history' = Append(history, tasks[i])
               /\ tasks' = RemoveAt(tasks, i)

\* C7: the history holds at most one row per search answered with success:
\* the row is created by that search's task, after the response was
\* assembled, with its query, type and result count, and there is none while
\* the task is queued or when its write failed; rows already there are never
\* changed or removed.
C7_HistoryAppendOnly == [](HistoryWithinServed) /\ [][HistoryStep]_vars

\* a second row appended to a history that held one
C7_Witness ==
    /\ Len(history) = 2
    /\ tasks = <<>>
    /\ Cardinality(Successes) = 2

\* C7 as claimed: once no task is queued, the history holds exactly one row
\* per search answered with success.
C7_OneRowPerAnsweredSearch ==
    (tasks = <<>> /\ pc = "idle") => Len(history) = Cardinality(Successes)

\* C8: a step that runs a history task leaves the response as it was,
\* whether the write succeeds or fails; the task is gone afterwards (no
\* retry) and the history is either unchanged or longer by exactly that
\* task's row (no partial row).
C8_HistoryWriteIsolated ==
    [][Len(tasks') < Len(tasks) =>
          /\ response' = response
          /\ served' = served
          /\ all_results' = all_results
          /\ \E i \in 1..Len(tasks) :
                 /\ tasks' = RemoveAt(tasks, i)
                 /\ \/ history' = history
                    \/ history' = Append(history, tasks[i])]_vars

\* a search was answered, its history write failed and nothing is queued
C8_Witness ==
    /\ SearchAnswered
    /\ Cardinality(Successes) = 1
    /\ tasks = <<>>
    /\ history = <<>>

\* C9: in a search response the local hits come first, unchanged and in the
\* order the store returned them, then the PubChem hits in the order PubChem
\* returned them; the local store is queried before PubChem.
C9_LocalBeforeExternal ==
    /\ calls /= <<>> => Head(calls) = "local"
    /\ SearchAnswered =>
           LET n == Len(local_results)
           IN  /\ Len(response.molecules) >= Min(n, request.limit)
               /\ \A i \in 1..Len(response.molecules) :
                      IF i <= n
                      THEN response.molecules[i] = LocalResponse(local_results[i])
                      ELSE /\ i - n <= Len(pubchem_results)
                           /\ response.molecules[i].pubchemCID
                                  = pubchem_results[i - n].pubchem_cid
                           /\ response.molecules[i].inchiKey
                                  = pubchem_results[i - n].inchi_key
                           /\ response.molecules[i].smiles
                                  = pubchem_results[i - n].smiles

\* a response with several local hits followed by several different PubChem hits
C9_Witness ==
    /\ SearchAnswered
    /\ calls = <<"local", "pubchem">>
    /\ Len(local_results) >= 2
    /\ local_results[1] /= local_results[2]
    /\ Len(response.molecules) >= Len(local_results) + 2
    /\ response.molecules[Len(local_results) + 1].inchiKey
           /= response.molecules[Len(local_results) + 2].inchiKey

\* C10: a PubChem hit without a usable SMILES (missing, empty or unparsable)
\* is dropped and the search does not fail, so every PubChem entry of a
\* search response has a SMILES that parses.
C10_UnusableHitsDropped ==
    (response.op = "search" /\ "pubchem" \in {calls[i] : i \in 1..Len(calls)}) =>
        /\ response.status = 200
        /\ \A i \in 1..Len(response.molecules) :
               i > Len(local_results) =>
                   /\ Truthy(response.molecules[i].smiles)
                   /\ smiles_to_mol(response.molecules[i].smiles) /= None

(***************************************************************************)
(* Properties of the property calculator and of the properties group.      *)
(***************************************************************************)
PropertiesComputed ==
    response.op = "properties" /\ env.op = "properties" /\ env.ok

\* C11: the computed Lipinski flag is true exactly when the logP as reported
\* (rounded to two decimals) is <= 5, donors <= 5, acceptors <= 10 and the
\* RDKit molecular weight is <= 500, all bounds inclusive; logP 3, donors 2,
\* acceptors 4, weight 250 gives true, and weight 600 gives false.
C11_LipinskiOnReportedLogP ==
    PropertiesComputed =>
        LET p == response.properties
            d == env.descriptors
        IN  /\ p.lipinski \in {Some(TRUE), Some(FALSE)}
            /\ p.lipinski = Some(TRUE) <=>
                   /\ p.logP[1] <= 5000
                   /\ p.hbondDonors[1] <= 5
                   /\ p.hbondAcceptors[1] <= 10
                   /\ d.MolWt <= 500000
            /\ p.hbondDonors = Some(d.NumHDonors)
            /\ p.hbondAcceptors = Some(d.NumHAcceptors)
            /\ p.logP[1] - d.MolLogP \in -5..5
            /\ (d.MolLogP = 3000 /\ d.NumHDonors = 2 /\ d.NumHAcceptors = 4) =>
                   /\ d.MolWt = 250000 => p.lipinski = Some(TRUE)
                   /\ d.MolWt = 600000 => p.lipinski = Some(FALSE)

\* a molecule on all four bounds, which passes
C11_Witness ==
    /\ PropertiesComputed
    /\ env.descriptors.MolLogP = 5000
    /\ env.descriptors.NumHDonors = 5
    /\ env.descriptors.NumHAcceptors = 10
    /\ env.descriptors.MolWt = 500000
    /\ response.properties.lipinski = Some(TRUE)

\* C11 as claimed: the flag is true exactly when the four bounds hold of the
\* molecule's descriptor values.
C11_LipinskiOnDescriptors ==
    PropertiesComputed =>
        LET d == env.descriptors
        IN  response.properties.lipinski = Some(TRUE) <=>
                /\ d.MolLogP <= 5000
                /\ d.NumHDonors <= 5
                /\ d.NumHAcceptors <= 10
                /\ d.MolWt <= 500000

\* the six fields of a properties value are all present or all absent
AllOrNothing(p) ==
    \/ /\ p.logP = Null /\ p.tpsa = Null /\ p.hbondDonors = Null
       /\ p.hbondAcceptors = Null /\ p.rotatablebonds = Null /\ p.lipinski = Null
    \/ /\ p.logP /= Null /\ p.tpsa /= Null /\ p.hbondDonors /= Null
       /\ p.hbondAcceptors /= Null /\ p.rotatablebonds /= Null /\ p.lipinski /= Null

\* C12: every properties value of a search or validate response has its six
\* fields all present or all absent, whether it was computed by the property
\* calculator or built from a store row.
C12_PropertiesAllOrNothing ==
    /\ SearchAnswered =>
           \A i \in 1..Len(response.molecules) :
               \/ response.molecules[i].properties = Null
               \/ AllOrNothing(response.molecules[i].properties[1])
    /\ (response.op = "validate" /\ response.valid) =>
           AllOrNothing(response.properties)

(***************************************************************************)
(* The local store search inside a search request.                         *)
(***************************************************************************)
RecognizedTypes == {"name", "cas", "smiles", "inchi_key"}

\* the local search of the request in progress returned nothing although the
\* store was not asked or could not be read
LocalSearchDegraded ==
    /\ env.op = "search"
    /\ calls /= <<>>
    /\ ~env.db_ok \/ request.type \notin RecognizedTypes

\* C13: the local store search returns at most limit rows; for a search type
\* it does not recognize (inchi included) and for a store failure it returns
\* no rows, and the request then goes on to the external step with
\* remaining = limit: it is not answered by the local step, the external source
\* is called for the types it serves, and the answer is a 200 holding the
\* first limit external hits, a 500 arising only from an external hit that
\* cannot be converted.
C13_LocalSearchNeverFails ==
    (env.op = "search" /\ calls /= <<>>) =>
        /\ Len(local_results) <= request.limit
        /\ LocalSearchDegraded =>
               /\ local_results = <<>>
               /\ Head(calls) = "local"
               /\ pc = "pubchem" =>
                      /\ response = NoResponse
                      /\ all_results = <<>>
                      /\ RemainingLimit(request.limit, all_results) = request.limit
               /\ pc = "idle" =>
                      /\ response.op = "search"
                      /\ calls = IF CallsPubchem(request.type)
                                 THEN <<"local", "pubchem">> ELSE <<"local">>
                      /\ response.status = 200 =>
                             /\ Len(response.molecules)
                                    = Min(Len(pubchem_results), request.limit)
                             /\ response.total = Len(response.molecules)
                      /\ response.status /= 200 =>
                             \E i \in 1..Len(pubchem_results) :
                                 ~ResponseValidates(pubchem_results[i])

\* the store holds rows matching the query but cannot be read, and the
\* request is answered with external hits only
C13_Witness ==
    /\ LocalSearchDegraded
    /\ ~env.db_ok
    /\ request.type \in RecognizedTypes
    /\ QueryRows(store, request.type, request.query, request.limit) /= <<>>
    /\ local_results = <<>>
    /\ SearchAnswered
    /\ Len(response.molecules) > 0

====
